---- MODULE Spec2Model ----
(***************************************************************************)
(* Njangi Bank Dashboard (src/app.py): the ledger tables the admin tabs    *)
(* write, the KPI helpers that aggregate them, and the Option B payout     *)
(* processor that clears the pot and advances the rotation.                *)
(*                                                                         *)
(* Every button handler is one action.  A store call that can raise takes  *)
(* its outcome as an input of the action, so a handler that stops half way *)
(* leaves exactly the writes it had already made.  Money is an integer     *)
(* number of currency units; a borrow capacity is held in hundredths so    *)
(* that the 0.70 foundation rate is exact.  now_iso() is a logical clock.  *)
(***************************************************************************)
EXTENDS Integers, Sequences, FiniteSets, TLC

(***************************************************************************)
(* Bounds of the exploration.                                              *)
(***************************************************************************)
\* now_iso() calls explored under Spec
MaxClock == 3
\* store calls that may fail in one behaviour of Spec
MaxFaults == 1
\* now_iso() calls explored under SpecRotation
MaxClockRot == 66
\* store calls that may fail in one behaviour of SpecRotation
MaxFaultsRot == 1
\* rows of member_registry
NumMembers == 2
MaxClockAcc == 2
MaxClockCon == 3

(***************************************************************************)
(* Program constants.                                                      *)
(***************************************************************************)
\* the rotation wraps when idx + 1 exceeds this
GroupSize == 17
\* timedelta(days=14)
RotationPeriodDays == 14
\* found * 0.70, in hundredths
FoundationRatePct == 70
\* number_input step of the amount fields
AmountStep == 500
MonthlyRatePct == 5

\* Python None / SQL NULL in a text column
None == "<None>"
\* a timestamp key the JSON payload does not have
NoKey == 0 - 1

VARIABLES
    app_state,       \* the row id=1 of table app_state
    contributions,   \* table contributions_legacy, in insertion order
    payouts,         \* table payouts_legacy, in insertion order
    foundation,      \* table foundation_payments_legacy
    loans,           \* table loans_legacy
    clock,           \* the instant the next now_iso() returns
    last,            \* what the last handler did and what it saw before it
    beneficiaries,   \* beneficiaries of the latest successful payout runs
    faults,          \* store calls that have failed so far
    fines,           \* table fines_legacy
    app_state_others, \* the rows of table app_state whose id is not 1
    session,         \* st.session_state.session: the signed-in user, or None
    runs             \* the payout runs of the admin sessions, step by step

vars == <<app_state, contributions, payouts, foundation, loans, clock, last,
          beneficiaries, faults, fines, app_state_others, session, runs>>

tables == <<app_state, contributions, payouts, foundation, loans, fines,
            app_state_others>>

\* the browser sessions that run the payout side by side
Runners == {1, 2}

\* a session that is not running the payout
NoRun == [pc |-> "idle", idx |-> 0, pot |-> 0, logged |-> FALSE,
          counted |-> {}, marked |-> {}]

(***************************************************************************)
(* Helpers.                                                                *)
(***************************************************************************)
RECURSIVE SeqSum(_)
SeqSum(s) == IF s = <<>> THEN 0 ELSE Head(s) + SeqSum(Tail(s))

\* ids of member_registry, as the selectboxes offer them
member_labels == 1..NumMembers

\* str(x).lower().strip() on the kind tags that occur
lower_strip(k) ==
    CASE k = None -> ""
      [] k = "Paid" -> "paid"
      [] OTHER -> k

\* r.get("kind") or "contribution"
kind_or_contribution(k) == IF k = None \/ k = "" THEN "contribution" ELSE k

\* int(st_row.get("next_payout_index") or 1)
index_or_1(v) == IF v = 0 THEN 1 ELSE v

\* the pot without its kind filter
sum_contribution_pot_any_kind(rows) ==
    SeqSum([i \in 1..Len(rows) |-> rows[i].amount])

sum_contribution_pot(rows) ==
    SeqSum([i \in 1..Len(rows) |->
              IF kind_or_contribution(rows[i].kind) = "contribution"
              THEN rows[i].amount ELSE 0])

sum_total_contributions_alltime(rows) ==
    SeqSum([i \in 1..Len(rows) |-> rows[i].amount])

\* the store call of a one-insert handler that failed, if it did
Failed(ok) == IF ok THEN {} ELSE {"insert"}

\* what a handler records about the state it started from
Seen(op, failed, err, logged) ==
    [op |-> op, ok |-> (err = ""), err |-> err, failed |-> failed,
     logged |-> logged,
     pot |-> sum_contribution_pot(contributions),
     idx |-> app_state.next_payout_index,
     npay |-> Len(payouts)]

(***************************************************************************)
(* Initial state: an empty ledger, the rotation at its first or its last   *)
(* member.  Init has an approved admin signed in, InitAccess nobody.       *)
(***************************************************************************)
InitIndexes == {1, GroupSize}

InitLedger ==
    /\ app_state \in [next_payout_index : InitIndexes, next_payout_date : {0}]
    /\ contributions = <<>>
    /\ payouts = <<>>
    /\ foundation = <<>>
    /\ loans = <<>>
    /\ clock = 1
    /\ last = [op |-> "start", ok |-> TRUE, err |-> "", failed |-> {},
               logged |-> FALSE,
               pot |-> 0, idx |-> app_state.next_payout_index, npay |-> 0]
    /\ beneficiaries = <<>>
    /\ faults = 0
    /\ fines = <<>>
    /\ app_state_others = <<>>
    /\ runs = [s \in Runners |-> NoRun]

Init == InitLedger /\ session = "admin"

(***************************************************************************)
(* Access: the profiles table, the session and the admin gate.             *)
(***************************************************************************)
\* the rows of table profiles, by user id; "stranger" signs in without one
profiles ==
    [admin   |-> [role |-> "admin",  approved |-> TRUE],
     chair   |-> [role |-> "Admin",  approved |-> TRUE],
     member  |-> [role |-> "member", approved |-> TRUE],
     pending |-> [role |-> "admin",  approved |-> FALSE]]

Users == DOMAIN profiles \cup {"stranger"}

\* str(role).lower()
role_lower(r) == IF r = "Admin" THEN "admin" ELSE r

\* fetch_one: the first row, or nothing when there is none or the read raised
get_profile(user_id, read_ok) ==
    IF read_ok /\ user_id \in DOMAIN profiles
    THEN <<profiles[user_id]>> ELSE <<>>

\* the admin test without its approved check
is_admin_any_approval(profile) ==
    /\ profile # <<>>
    /\ role_lower(profile[1].role) = "admin"

is_admin(profile) ==
    /\ profile # <<>>
    /\ role_lower(profile[1].role) = "admin"
    /\ profile[1].approved = TRUE

is_member(profile) ==
    /\ profile # <<>>
    /\ role_lower(profile[1].role) = "member"
    /\ profile[1].approved = TRUE

\* the script got past both st.stop() calls and admin_mode is set
admin_mode(read_ok) ==
    /\ session # None
    /\ is_admin(get_profile(session, read_ok))
         \/ is_member(get_profile(session, read_ok))
    /\ is_admin(get_profile(session, read_ok))

\* the admin tabs and the interest button are rendered
AdminPage == \E read_ok \in BOOLEAN : admin_mode(read_ok)

Login(user_id) ==
    /\ session = None
    /\ session' = user_id
    /\ UNCHANGED <<tables, clock, last, beneficiaries, faults, runs>>

Logout ==
    /\ session # None
    /\ session' = None
    /\ UNCHANGED <<tables, clock, last, beneficiaries, faults, runs>>

(***************************************************************************)
(* Transactions tab: Post Contribution.                                    *)
(***************************************************************************)
PostContribution(legacy_id, amount, kind, ok) ==
    /\ clock' = clock + 1
    /\ contributions' =
         IF ok
         THEN Append(contributions,
                     [member_id |-> legacy_id, amount |-> amount,
                      kind |-> kind, created_at |-> clock])
         ELSE contributions
    /\ last' = Seen("post_contribution", Failed(ok),
                    IF ok THEN "" ELSE "insert_failed", FALSE)
    /\ UNCHANGED <<app_state, payouts, foundation, loans, beneficiaries,
                   fines, app_state_others>>

(***************************************************************************)
(* Foundation tab: Post Foundation Payment.  The status, date_paid,        *)
(* converted_to_loan and notes fields are stored and never read back.      *)
(***************************************************************************)
PostFoundationPayment(legacy_id_f, amount_paid, amount_pending, ok) ==
    /\ clock' = clock + 1
    /\ foundation' =
         IF ok
         THEN Append(foundation,
                     [member_id |-> legacy_id_f, amount_paid |-> amount_paid,
                      amount_pending |-> amount_pending, created_at |-> clock])
         ELSE foundation
    /\ last' = Seen("post_foundation", Failed(ok),
                    IF ok THEN "" ELSE "insert_failed", FALSE)
    /\ UNCHANGED <<app_state, contributions, payouts, loans, beneficiaries,
                   fines, app_state_others>>

(***************************************************************************)
(* Borrow capacity.  available is in hundredths of a currency unit.        *)
(***************************************************************************)
\* the capacity without its kind filter
member_available_to_borrow_all_kinds(crows, frows, legacy_member_id) ==
    LET paid_contrib ==
            SeqSum([i \in 1..Len(crows) |->
                      IF crows[i].member_id = legacy_member_id
                      THEN crows[i].amount ELSE 0])
        found ==
            SeqSum([i \in 1..Len(frows) |->
                      IF frows[i].member_id = legacy_member_id
                      THEN frows[i].amount_paid + frows[i].amount_pending
                      ELSE 0])
    IN  [available |-> 100 * paid_contrib + FoundationRatePct * found,
         paid_contrib |-> paid_contrib,
         found |-> found]

\* the capacity net of what the member still owes on loans
member_available_to_borrow_net_of_loans(crows, frows, legacy_member_id) ==
    LET gross == member_available_to_borrow_all_kinds(crows, frows,
                                                      legacy_member_id)
        owed ==
            SeqSum([i \in 1..Len(loans) |->
                      IF loans[i].borrower_member_id = legacy_member_id
                      THEN loans[i].balance ELSE 0])
    IN  [gross EXCEPT !.available = @ - 100 * owed]

member_available_to_borrow(crows, frows, legacy_member_id) ==
    LET paid_contrib ==
            SeqSum([i \in 1..Len(crows) |->
                      IF /\ crows[i].member_id = legacy_member_id
                         /\ lower_strip(crows[i].kind) = "paid"
                      THEN crows[i].amount ELSE 0])
        found ==
            SeqSum([i \in 1..Len(frows) |->
                      IF frows[i].member_id = legacy_member_id
                      THEN frows[i].amount_paid + frows[i].amount_pending
                      ELSE 0])
    IN  [available |-> 100 * paid_contrib + FoundationRatePct * found,
         paid_contrib |-> paid_contrib,
         found |-> found]

(***************************************************************************)
(* Loans tab: the capacity panel and Issue Loan.  The panel only warns;    *)
(* the button builds the payload and inserts it.                           *)
(***************************************************************************)
capacity_warning(crows, frows, borrower_member_id, principal) ==
    100 * principal >
        member_available_to_borrow(crows, frows, borrower_member_id).available

IssueLoan(borrower_member_id, surety_member_id, principal, status, ok) ==
    /\ clock' = clock + 1
    /\ loans' =
         IF ok
         THEN Append(loans,
                     [member_id |-> borrower_member_id,
                      borrower_member_id |-> borrower_member_id,
                      surety_member_id |-> surety_member_id,
                      principal |-> principal,
                      balance |-> principal,
                      interest_rate_monthly |-> MonthlyRatePct,
                      accrued_interest |-> 0,
                      last_interest_at |-> clock,
                      total_due |-> principal,
                      status |-> status,
                      created_at |-> clock])
         ELSE loans
    /\ last' = Seen("issue_loan", Failed(ok),
                    IF ok THEN "" ELSE "insert_failed",
                    capacity_warning(contributions, foundation,
                                     borrower_member_id, principal))
    /\ UNCHANGED <<app_state, contributions, payouts, foundation,
                   beneficiaries, fines, app_state_others>>

(***************************************************************************)
(* Fines tab: Post Fine.                                                   *)
(***************************************************************************)
PostFine(fine_member_id, fine_amount, fine_status, ok) ==
    /\ clock' = clock + 1
    /\ fines' =
         IF ok
         THEN Append(fines,
                     [member_id |-> fine_member_id, amount |-> fine_amount,
                      status |-> fine_status, created_at |-> clock])
         ELSE fines
    /\ last' = Seen("post_fine", Failed(ok),
                    IF ok THEN "" ELSE "insert_failed", FALSE)
    /\ UNCHANGED <<app_state, contributions, payouts, foundation, loans,
                   beneficiaries, app_state_others>>

(***************************************************************************)
(* Apply Monthly Interest Now.  The button calls the stored procedure      *)
(* apply_monthly_interest_simple, whose body is not part of the            *)
(* application source: every active loan a full month past its             *)
(* last_interest_at is charged one month of interest, once.                *)
(***************************************************************************)
\* clock ticks in a month
MonthTicks == 1

apply_monthly_interest_simple(rows, now) ==
    [i \in 1..Len(rows) |->
        IF /\ rows[i].status = "active"
           /\ now - rows[i].last_interest_at >= MonthTicks
        THEN LET interest ==
                    (rows[i].principal * rows[i].interest_rate_monthly)
                        \div 100
             IN  [rows[i] EXCEPT !.accrued_interest = @ + interest,
                                 !.total_due = @ + interest,
                                 !.last_interest_at = @ + MonthTicks]
        ELSE rows[i]]

ApplyMonthlyInterestNow(ok) ==
    /\ loans' = IF ok THEN apply_monthly_interest_simple(loans, clock)
                ELSE loans
    /\ last' = Seen("apply_interest", Failed(ok),
                    IF ok THEN "" ELSE "rpc_failed", FALSE)
    /\ UNCHANGED <<app_state, contributions, payouts, foundation, fines,
                   beneficiaries, app_state_others, clock>>

(***************************************************************************)
(* JSON Inserter: Run Insert.  On contributions_legacy a payload without a *)
(* kind stores NULL and a payload with its own created_at keeps it.  On    *)
(* app_state the store takes any row whose id is not the one in use.       *)
(***************************************************************************)
RunInsert(table, payload, ok) ==
    /\ table \in {"contributions_legacy", "app_state"}
    /\ clock' = clock + 1
    /\ IF table = "contributions_legacy"
       THEN /\ contributions' =
                 IF ok
                 THEN Append(contributions,
                             [member_id |-> payload.member_id,
                              amount |-> payload.amount,
                              kind |-> payload.kind,
                              created_at |-> IF payload.created_at = NoKey
                                             THEN clock
                                             ELSE payload.created_at])
                 ELSE contributions
            /\ UNCHANGED app_state_others
       ELSE /\ ok => payload.id # 1
            /\ app_state_others' =
                 IF ok THEN Append(app_state_others, payload)
                 ELSE app_state_others
            /\ UNCHANGED contributions
    /\ last' = Seen("run_insert", Failed(ok),
                    IF ok THEN "" ELSE "insert_failed", FALSE)
    /\ UNCHANGED <<app_state, payouts, foundation, loans, beneficiaries,
                   fines>>

(***************************************************************************)
(* Payout tab: legacy_payout_option_b behind Run Payout Now.               *)
(***************************************************************************)
\* the store calls of one run, in order; f names the ones that fail
PayoutCalls == {"read_app_state", "read_pot", "insert", "update", "state"}

\* f names only calls the run gets to make
Attempted(f, pot) ==
    /\ "read_app_state" \in f => f = {"read_app_state"}
    /\ "read_pot" \in f => f = {"read_pot"}
    /\ (f \cap {"read_app_state", "read_pot"} = {} /\ pot <= 0) => f = {}
    /\ "update" \in f => "state" \notin f

\* the receipt insert taken to have succeeded whatever the store said
payout_insert_unconditional(rows, payout_payload, inserted) ==
    Append(rows, payout_payload)

\* the receipt insert skipped when the member already has a receipt of
\* that amount
payout_insert_once(rows, payout_payload, inserted) ==
    IF /\ inserted
       /\ \A i \in 1..Len(rows) :
             \/ rows[i].member_id # payout_payload.member_id
             \/ rows[i].payout_amount # payout_payload.payout_amount
    THEN Append(rows, payout_payload) ELSE rows

\* c.table("payouts_legacy").insert(payout_payload) inside try/except
payout_insert(rows, payout_payload, inserted) ==
    IF inserted THEN Append(rows, payout_payload) ELSE rows

\* the bulk update as a delete of the rows it matches
delete_contributions_paid(rows) ==
    SelectSeq(rows, LAMBDA r : r.kind # "contribution")

\* the bulk update matching no row
mark_contributions_paid_none(rows) == rows

\* .update({"kind": "paid"}).eq("kind", "contribution")
mark_contributions_paid(rows) ==
    [i \in 1..Len(rows) |->
        IF rows[i].kind = "contribution"
        THEN [rows[i] EXCEPT !.kind = "paid"]
        ELSE rows[i]]

\* the advance without its wrap
rotation_next_nowrap(idx) == idx + 1

\* the advance wrapping one member early
rotation_next_early(idx) == IF idx + 1 >= GroupSize THEN 1 ELSE idx + 1

\* nxt = idx + 1; if nxt > 17: nxt = 1
rotation_next(idx) == IF idx + 1 > GroupSize THEN 1 ELSE idx + 1

\* the successful runs' beneficiaries, the latest GroupSize of them
Remember(s, idx) ==
    LET t == Append(s, idx)
    IN  IF Len(t) > GroupSize THEN Tail(t) ELSE t

\* (ben or {}).get("full_name") or f"Member {idx}", ben being the registry
\* row whose legacy_member_id is idx
ben_name(idx) ==
    IF idx \in member_labels THEN <<"full_name", idx>> ELSE <<"Member", idx>>

\* the pot check letting an empty pot through
pot_is_negative(pot) == pot < 0

\* if pot <= 0: raise
pot_is_zero(pot) == pot <= 0

\* the receipt insert outside its try/except
first_uncaught_with_insert(f) ==
    IF "insert" \in f THEN "insert"
    ELSE IF "update" \in f THEN "update"
    ELSE IF "state" \in f THEN "state"
    ELSE "none"

\* the first failing write that is not caught: the payout insert sits in a
\* try/except that only clears payout_inserted, the two updates do not
first_uncaught(f) ==
    IF "update" \in f THEN "update"
    ELSE IF "state" \in f THEN "state"
    ELSE "none"

legacy_payout_option_b(f) ==
    LET idx == index_or_1(app_state.next_payout_index)
        pot == sum_contribution_pot(contributions)
        payout_inserted == "insert" \notin f
        payout_payload == [member_id |-> idx, member_name |-> ben_name(idx),
                           payout_amount |-> pot,
                           payout_date |-> clock, created_at |-> clock]
        nxt == rotation_next(idx)
        next_date == clock + RotationPeriodDays
        stop == first_uncaught(f)
    IN
    /\ Attempted(f, pot)
    /\ IF "read_app_state" \in f
       THEN \* fetch_one returned None: raise before any write
            /\ last' = Seen("payout", f, "no_app_state", FALSE)
            /\ UNCHANGED <<tables, clock, beneficiaries>>
       ELSE IF "read_pot" \in f
       THEN \* sum_contribution_pot raised
            /\ last' = Seen("payout", f, "read_failed", FALSE)
            /\ UNCHANGED <<tables, clock, beneficiaries>>
       ELSE IF pot_is_zero(pot)
       THEN /\ last' = Seen("payout", f, "pot_zero", FALSE)
            /\ UNCHANGED <<tables, clock, beneficiaries>>
       ELSE /\ clock' = clock + 1
            /\ payouts' = payout_insert(payouts, payout_payload,
                                        payout_inserted)
            /\ UNCHANGED <<foundation, loans, fines, app_state_others>>
            /\ contributions' =
                 IF stop \in {"insert", "update"}
                 THEN contributions
                 ELSE mark_contributions_paid(contributions)
            /\ app_state' =
                 IF stop = "none"
                 THEN [next_payout_index |-> nxt,
                       next_payout_date |-> next_date]
                 ELSE app_state
            /\ beneficiaries' =
                 IF stop = "none"
                 THEN Remember(beneficiaries, idx)
                 ELSE beneficiaries
            /\ last' = Seen("payout", f,
                            IF stop = "none" THEN "" ELSE stop \o "_failed",
                            payout_inserted)

(***************************************************************************)
(* The inputs explored.                                                    *)
(***************************************************************************)
\* number_input(min_value=0, step=500)
FormAmounts == {0, AmountStep}
\* selectbox("kind", ["contribution", "paid", "other"])
FormKinds == {"contribution", "paid", "other"}
\* number_input("principal", min_value=500.0, step=500.0)
Principals == {AmountStep, 2 * AmountStep}
LoanStatuses == {"active"}
\* payloads typed into the JSON Inserter
JsonPayloads ==
    { [member_id |-> 1, amount |-> AmountStep, kind |-> None,
       created_at |-> NoKey],
      [member_id |-> 1, amount |-> AmountStep, kind |-> "",
       created_at |-> 0],
      [member_id |-> 1, amount |-> AmountStep, kind |-> "Paid",
       created_at |-> NoKey],
      [member_id |-> 1, amount |-> AmountStep, kind |-> "contribution",
       created_at |-> 0],
      [member_id |-> 1, amount |-> 0 - AmountStep, kind |-> "contribution",
       created_at |-> NoKey] }
\* amount_paid and amount_pending of one foundation entry
FoundationAmounts == {<<AmountStep, 0>>, <<0, AmountStep>>}

\* a store call fails only while the behaviour has failures left
Failing(n, limit) == faults + n <= limit /\ faults' = faults + n

Flag(ok) == IF ok THEN 0 ELSE 1

(***************************************************************************)
(* Spec: every handler, every input, a short history.                      *)
(***************************************************************************)
DoPostContribution ==
    /\ clock <= MaxClock
    /\ AdminPage
    /\ UNCHANGED <<session, runs>>
    /\ \E m \in member_labels, a \in FormAmounts, k \in FormKinds,
          ok \in BOOLEAN :
          PostContribution(m, a, k, ok) /\ Failing(Flag(ok), MaxFaults)

DoPostFoundationPayment ==
    /\ clock <= MaxClock
    /\ AdminPage
    /\ UNCHANGED <<session, runs>>
    /\ \E m \in member_labels, pq \in FoundationAmounts, ok \in BOOLEAN :
          PostFoundationPayment(m, pq[1], pq[2], ok)
          /\ Failing(Flag(ok), MaxFaults)

DoIssueLoan ==
    /\ clock <= MaxClock
    /\ AdminPage
    /\ UNCHANGED <<session, runs>>
    /\ \E b \in member_labels, s \in member_labels, p \in Principals,
          st \in LoanStatuses, ok \in BOOLEAN :
          IssueLoan(b, s, p, st, ok) /\ Failing(Flag(ok), MaxFaults)

DoRunInsert ==
    /\ clock <= MaxClock
    /\ AdminPage
    /\ UNCHANGED <<session, runs>>
    /\ \E payload \in JsonPayloads, ok \in BOOLEAN :
          RunInsert("contributions_legacy", payload, ok)
          /\ Failing(Flag(ok), MaxFaults)

DoRunPayoutNow ==
    /\ clock <= MaxClock
    /\ AdminPage
    /\ UNCHANGED <<session, runs>>
    /\ \E f \in SUBSET PayoutCalls :
          legacy_payout_option_b(f) /\ Failing(Cardinality(f), MaxFaults)

Next ==
    \/ DoPostContribution
    \/ DoPostFoundationPayment
    \/ DoIssueLoan
    \/ DoRunInsert
    \/ DoRunPayoutNow

Spec == Init /\ [][Next]_vars

(***************************************************************************)
(* SpecRotation: one contribution form input, every payout outcome, a      *)
(* history long enough for the rotation to go round twice.                 *)
(***************************************************************************)
InitRotation == Init /\ app_state.next_payout_index = 1

RotPostContribution ==
    /\ clock <= MaxClockRot
    /\ AdminPage
    /\ UNCHANGED <<session, runs>>
    /\ sum_contribution_pot(contributions) = 0
    /\ PostContribution(1, AmountStep, "contribution", TRUE)
    /\ UNCHANGED faults

RotRunPayoutNow ==
    /\ clock <= MaxClockRot
    /\ AdminPage
    /\ UNCHANGED <<session, runs>>
    /\ \E f \in SUBSET PayoutCalls :
          legacy_payout_option_b(f) /\ Failing(Cardinality(f), MaxFaultsRot)

NextRotation == RotPostContribution \/ RotRunPayoutNow

SpecRotation == InitRotation /\ [][NextRotation]_vars

(***************************************************************************)
(* SpecAccess: nobody signed in at first, every user signing in and out,   *)
(* every write handler with one form input, a short history.               *)
(***************************************************************************)
InitAccess == InitLedger /\ session = None /\ app_state.next_payout_index = 1

\* a row typed into the JSON Inserter for table app_state
AppStatePayload == [id |-> 2, next_payout_index |-> 5, created_at |-> NoKey]

AccLogin ==
    \E user_id \in Users : Login(user_id)

AccLogout == Logout

AccPostContribution ==
    /\ clock <= MaxClockAcc
    /\ AdminPage
    /\ UNCHANGED <<session, runs>>
    /\ \E ok \in BOOLEAN :
          PostContribution(1, AmountStep, "contribution", ok)
          /\ Failing(Flag(ok), MaxFaults)

AccPostFoundationPayment ==
    /\ clock <= MaxClockAcc
    /\ AdminPage
    /\ UNCHANGED <<session, runs>>
    /\ \E ok \in BOOLEAN :
          PostFoundationPayment(1, AmountStep, 0, ok)
          /\ Failing(Flag(ok), MaxFaults)

AccIssueLoan ==
    /\ clock <= MaxClockAcc
    /\ AdminPage
    /\ UNCHANGED <<session, runs>>
    /\ \E ok \in BOOLEAN :
          IssueLoan(1, 2, AmountStep, "active", ok)
          /\ Failing(Flag(ok), MaxFaults)

AccPostFine ==
    /\ clock <= MaxClockAcc
    /\ AdminPage
    /\ UNCHANGED <<session, runs>>
    /\ \E ok \in BOOLEAN :
          PostFine(1, AmountStep, "unpaid", ok)
          /\ Failing(Flag(ok), MaxFaults)

AccApplyMonthlyInterestNow ==
    /\ clock <= MaxClockAcc
    /\ AdminPage
    /\ UNCHANGED <<session, runs>>
    /\ \E ok \in BOOLEAN :
          ApplyMonthlyInterestNow(ok) /\ Failing(Flag(ok), MaxFaults)

AccRunInsert ==
    /\ clock <= MaxClockAcc
    /\ AdminPage
    /\ UNCHANGED <<session, runs>>
    /\ \E ok \in BOOLEAN :
          RunInsert("app_state", AppStatePayload, ok)
          /\ Failing(Flag(ok), MaxFaults)

AccRunPayoutNow ==
    /\ clock <= MaxClockAcc
    /\ AdminPage
    /\ UNCHANGED <<session, runs>>
    /\ \E f \in SUBSET PayoutCalls :
          legacy_payout_option_b(f) /\ Failing(Cardinality(f), MaxFaults)

NextAccess ==
    \/ AccLogin
    \/ AccLogout
    \/ AccPostContribution
    \/ AccPostFoundationPayment
    \/ AccIssueLoan
    \/ AccPostFine
    \/ AccApplyMonthlyInterestNow
    \/ AccRunInsert
    \/ AccRunPayoutNow

SpecAccess == InitAccess /\ [][NextAccess]_vars

(***************************************************************************)
(* SpecConcurrent: two admin sessions run legacy_payout_option_b side by   *)
(* side, one store call at a time, while contributions are posted.  Each   *)
(* run remembers which rows its pot read counted and which its bulk update *)
(* marked.                                                                 *)
(***************************************************************************)
InitConcurrent == Init /\ app_state.next_payout_index = 1

\* the rows a pot read or a bulk update picks, by position
pot_rows(rows) ==
    {i \in 1..Len(rows) : kind_or_contribution(rows[i].kind) = "contribution"}

update_rows(rows) ==
    {i \in 1..Len(rows) : rows[i].kind = "contribution"}

\* st = get_app_state(c); idx = int(st.get("next_payout_index") or 1)
RunGetAppState(s) ==
    /\ clock <= MaxClockCon
    /\ AdminPage
    /\ runs[s].pc \in {"idle", "done", "failed"}
    /\ runs' = [runs EXCEPT ![s] =
                   [NoRun EXCEPT !.pc = "pot",
                       !.idx = index_or_1(app_state.next_payout_index)]]
    /\ UNCHANGED <<tables, clock, last, beneficiaries, faults, session>>

\* pot = sum_contribution_pot(c); if pot <= 0: raise
RunSumPot(s) ==
    /\ runs[s].pc = "pot"
    /\ LET pot == sum_contribution_pot(contributions)
       IN  runs' = [runs EXCEPT ![s].pot = pot,
                                ![s].counted = pot_rows(contributions),
                                ![s].pc = IF pot_is_zero(pot) THEN "failed"
                                          ELSE "insert"]
    /\ UNCHANGED <<tables, clock, last, beneficiaries, faults, session>>

\* the payout payload and its insert inside try/except
RunInsertPayout(s, ok) ==
    /\ runs[s].pc = "insert"
    /\ clock' = clock + 1
    /\ payouts' = payout_insert(payouts,
                                [member_id |-> runs[s].idx,
                                 member_name |-> ben_name(runs[s].idx),
                                 payout_amount |-> runs[s].pot,
                                 payout_date |-> clock, created_at |-> clock],
                                ok)
    /\ runs' = [runs EXCEPT ![s].logged = ok, ![s].pc = "update"]
    /\ UNCHANGED <<app_state, contributions, foundation, loans, fines,
                   app_state_others, last, beneficiaries, session>>

\* the bulk update of contributions_legacy
RunMarkPaid(s, ok) ==
    /\ runs[s].pc = "update"
    /\ contributions' = IF ok THEN mark_contributions_paid(contributions)
                        ELSE contributions
    /\ runs' = [runs EXCEPT ![s].marked = IF ok
                                          THEN update_rows(contributions)
                                          ELSE {},
                            ![s].pc = IF ok THEN "advance" ELSE "failed"]
    /\ UNCHANGED <<app_state, payouts, foundation, loans, fines,
                   app_state_others, clock, last, beneficiaries, session>>

\* nxt, next_date and the update of app_state
RunUpdateAppState(s, ok) ==
    /\ runs[s].pc = "advance"
    /\ app_state' =
         IF ok
         THEN [next_payout_index |-> rotation_next(runs[s].idx),
               next_payout_date |-> clock + RotationPeriodDays]
         ELSE app_state
    /\ beneficiaries' = IF ok THEN Remember(beneficiaries, runs[s].idx)
                        ELSE beneficiaries
    /\ runs' = [runs EXCEPT ![s].pc = IF ok THEN "done" ELSE "failed"]
    /\ UNCHANGED <<contributions, payouts, foundation, loans, fines,
                   app_state_others, clock, last, session>>

ConGetAppState == \E s \in Runners : RunGetAppState(s)

ConSumPot == \E s \in Runners : RunSumPot(s)

ConInsertPayout ==
    \E s \in Runners, ok \in BOOLEAN :
        RunInsertPayout(s, ok) /\ Failing(Flag(ok), MaxFaults)

ConMarkPaid ==
    \E s \in Runners, ok \in BOOLEAN :
        RunMarkPaid(s, ok) /\ Failing(Flag(ok), MaxFaults)

ConUpdateAppState ==
    \E s \in Runners, ok \in BOOLEAN :
        RunUpdateAppState(s, ok) /\ Failing(Flag(ok), MaxFaults)

ConPostContribution ==
    /\ clock <= MaxClockCon
    /\ AdminPage
    /\ PostContribution(1, AmountStep, "contribution", TRUE)
    /\ UNCHANGED <<faults, session, runs>>

NextConcurrent ==
    \/ ConGetAppState
    \/ ConSumPot
    \/ ConInsertPayout
    \/ ConMarkPaid
    \/ ConUpdateAppState
    \/ ConPostContribution

SpecConcurrent == InitConcurrent /\ [][NextConcurrent]_vars

(***************************************************************************)
(* Properties.                                                             *)
(***************************************************************************)
PayoutRan == last.op = "payout"
PayoutSucceeded == last.op = "payout" /\ last.ok
NewestContribution == contributions[Len(contributions)]
NewestLoan == loans[Len(loans)]
PotNow == sum_contribution_pot(contributions)

\* sum of V over the rows of a table that satisfy P
TotalWhere(rows, P(_), V(_)) ==
    SeqSum([i \in 1..Len(rows) |-> IF P(rows[i]) THEN V(rows[i]) ELSE 0])

\* C1, as claimed: every payout run that returns leaves exactly one more
\* row in payouts_legacy than it found.
C1_ExactlyOneNewPayout ==
    PayoutSucceeded => Len(payouts) = last.npay + 1

\* C1, amended: a payout run that returns leaves one more payout row, for
\* the beneficiary and the pot it read, when it reports payout_logged, and
\* the payouts table as it found it when it does not.
C1_OneNewPayoutIffLogged ==
    PayoutSucceeded =>
        IF last.logged
        THEN /\ Len(payouts) = last.npay + 1
             /\ payouts[Len(payouts)].member_id = last.idx
             /\ payouts[Len(payouts)].payout_amount = last.pot
        ELSE Len(payouts) = last.npay

C1_Witness ==
    /\ PayoutSucceeded
    /\ last.logged
    /\ Len(payouts) = last.npay + 1

\* C2: right after a payout run that returned, the pot is 0.
C2_PotZeroAfterPayout ==
    PayoutSucceeded => PotNow = 0

\* C3: a payout run that returns stores 1 when it read GroupSize and k + 1
\* when it read any other k.
C3_RotationAdvance ==
    PayoutSucceeded =>
        /\ last.idx = GroupSize => app_state.next_payout_index = 1
        /\ last.idx # GroupSize =>
               app_state.next_payout_index = last.idx + 1

C3_Witness ==
    /\ PayoutSucceeded
    /\ last.idx = GroupSize
    /\ app_state.next_payout_index = 1

\* C4: among the latest payout runs that returned, up to GroupSize of them,
\* no member is paid twice, each run pays the member after the one before
\* it in the cycle, GroupSize runs pay every member, and a run leaves the
\* pointer one position after the member it paid.
C4_RotationPaysEachMemberOnce ==
    LET n == Len(beneficiaries) IN
    /\ \A i, j \in 1..n :
          i # j => beneficiaries[i] # beneficiaries[j]
    /\ \A i \in 1..(n - 1) :
          beneficiaries[i + 1] = (beneficiaries[i] % GroupSize) + 1
    /\ n = GroupSize => {beneficiaries[i] : i \in 1..n} = 1..GroupSize
    /\ PayoutSucceeded =>
          /\ beneficiaries[n] = last.idx
          /\ app_state.next_payout_index = (last.idx % GroupSize) + 1
          /\ last.logged => payouts[Len(payouts)].member_id = last.idx

C4_Witness ==
    /\ Len(beneficiaries) = GroupSize
    /\ beneficiaries[1] = 5
    /\ PayoutSucceeded

\* C5: a payout run started on a pot that is 0 or less reports an error and
\* leaves every table, the rotation record included, as it was.
C5_EmptyPotAbortsUnchanged ==
    [][(last'.op = "payout" /\ sum_contribution_pot(contributions) <= 0)
         => (~last'.ok /\ UNCHANGED <<tables, beneficiaries>>)]_vars

C5_Witness ==
    /\ PayoutRan
    /\ last.err = "pot_zero"
    /\ \E i \in 1..Len(contributions) : contributions[i].kind = "contribution"

\* C6: a payout run that stopped on an error left nothing of the cycle
\* behind: no payout row, the pot as it was, the pointer where it was.
C6_FailedRunLeavesNothing ==
    (PayoutRan /\ ~last.ok) =>
        /\ Len(payouts) = last.npay
        /\ PotNow = last.pot
        /\ app_state.next_payout_index = last.idx

\* C7: a payout run in which only the receipt insert fails still returns,
\* with payout_logged false, no new payout row, no row left with kind
\* 'contribution', and the pointer advanced.
C7_InsertFailureTolerated ==
    (PayoutRan /\ last.failed = {"insert"}) =>
        /\ last.ok
        /\ ~last.logged
        /\ Len(payouts) = last.npay
        /\ \A i \in 1..Len(contributions) :
              contributions[i].kind # "contribution"
        /\ app_state.next_payout_index = (last.idx % GroupSize) + 1
        /\ app_state.next_payout_index # last.idx

C7_Witness ==
    /\ PayoutRan
    /\ last.failed = {"insert"}
    /\ last.ok
    /\ \E i \in 1..Len(contributions) : contributions[i].kind = "paid"

\* C8, as claimed: a posted contribution raises the pot by its amount, and
\* strictly, whatever its kind; a row dated at or before the last payout
\* leaves the pot as it was.
C8_PostRaisesPot ==
    /\ (last.op = "post_contribution" /\ last.ok) =>
          /\ PotNow = last.pot + NewestContribution.amount
          /\ PotNow > last.pot
    /\ (/\ last.op = "run_insert"
        /\ last.ok
        /\ payouts # <<>>
        /\ NewestContribution.created_at <= payouts[Len(payouts)].created_at)
          => PotNow = last.pot

\* C8, amended: a contribution posted with kind 'contribution' raises the
\* pot by exactly its amount, one posted with kind 'paid' or 'other' leaves
\* the pot as it was, and the date of a row plays no part: an inserted row
\* counts when its kind is 'contribution' or missing.
C8_PostRaisesPotByKind ==
    /\ (last.op = "post_contribution" /\ last.ok) =>
          PotNow = last.pot
                   + (IF NewestContribution.kind = "contribution"
                      THEN NewestContribution.amount ELSE 0)
    /\ (last.op = "run_insert" /\ last.ok) =>
          PotNow = last.pot
                   + (IF NewestContribution.kind \in {"contribution", "", None}
                      THEN NewestContribution.amount ELSE 0)

C8_Witness ==
    /\ last.op = "post_contribution"
    /\ last.ok
    /\ NewestContribution.kind = "contribution"
    /\ NewestContribution.amount > 0
    /\ payouts # <<>>
    /\ NewestContribution.created_at > payouts[Len(payouts)].created_at
    /\ PotNow = last.pot + NewestContribution.amount

\* C9, as claimed: a member's capacity is the sum of all the member's
\* contributions plus 0.70 of the member's foundation paid and pending.
C9_CapacityAllContributions ==
    \A m \in member_labels :
        LET Mine(r) == r.member_id = m
            Amount(r) == r.amount
            Found(r) == r.amount_paid + r.amount_pending
        IN  member_available_to_borrow(contributions, foundation,
                                       m).available
              = 100 * TotalWhere(contributions, Mine, Amount)
                + FoundationRatePct * TotalWhere(foundation, Mine, Found)

\* C9, amended: a member's capacity is the sum of the member's
\* contributions whose kind reads 'paid' plus 0.70 of the member's
\* foundation paid and pending.
C9_CapacityPaidContributions ==
    \A m \in member_labels :
        LET MinePaid(r) == r.member_id = m /\ r.kind \in {"paid", "Paid"}
            Mine(r) == r.member_id = m
            Amount(r) == r.amount
            Found(r) == r.amount_paid + r.amount_pending
        IN  member_available_to_borrow(contributions, foundation,
                                       m).available
              = 100 * TotalWhere(contributions, MinePaid, Amount)
                + FoundationRatePct * TotalWhere(foundation, Mine, Found)

C9_Witness ==
    \E m \in member_labels :
        LET cap == member_available_to_borrow(contributions, foundation, m)
        IN  /\ cap.paid_contrib > 0
            /\ cap.found > 0
            /\ cap.available = 100 * cap.paid_contrib + 70 * cap.found
            /\ \E i \in 1..Len(contributions) :
                  /\ contributions[i].member_id = m
                  /\ contributions[i].kind = "other"
                  /\ contributions[i].amount > 0

\* C10: a loan that Issue Loan has inserted is within the capacity of its
\* borrower and within the capacity of its surety.
C10_LoanWithinBothCapacities ==
    (last.op = "issue_loan" /\ last.ok) =>
        /\ 100 * NewestLoan.principal <=
              member_available_to_borrow(
                  contributions, foundation,
                  NewestLoan.borrower_member_id).available
        /\ 100 * NewestLoan.principal <=
              member_available_to_borrow(
                  contributions, foundation,
                  NewestLoan.surety_member_id).available

\* C11: a loan that Issue Loan has inserted has a surety other than its
\* borrower.
C11_SuretyIsNotBorrower ==
    (last.op = "issue_loan" /\ last.ok) =>
        NewestLoan.surety_member_id # NewestLoan.borrower_member_id

\* C12: the pot is never negative, and is 0 on an empty table.
C12_PotNeverNegative ==
    /\ PotNow >= 0
    /\ contributions = <<>> => PotNow = 0

\* C13: a payout run that returns has paid an index that has a row in
\* member_registry and leaves the pointer on an index that has one.
C13_IndexResolvesToMember ==
    PayoutSucceeded =>
        /\ last.idx \in member_labels
        /\ app_state.next_payout_index \in member_labels

\* sum of the contributions created strictly after the most recent payout,
\* of all of them when there is no payout yet
WindowSum ==
    LET After(r) == payouts = <<>>
                    \/ r.created_at > payouts[Len(payouts)].created_at
        Amount(r) == r.amount
    IN  TotalWhere(contributions, After, Amount)

C16_FailedPotReadIsZero ==
    (PayoutRan /\ last.failed = {"read_pot"}) => last.err # "read_failed"

\* C17: a payout run keeps every contribution row, with its amount, its
\* member and its date, and so keeps the all-time total.
C17_PayoutKeepsRows ==
    [][last'.op = "payout" =>
         /\ Len(contributions') = Len(contributions)
         /\ \A i \in 1..Len(contributions) :
               /\ contributions'[i].amount = contributions[i].amount
               /\ contributions'[i].member_id = contributions[i].member_id
               /\ contributions'[i].created_at = contributions[i].created_at
         /\ sum_total_contributions_alltime(contributions')
              = sum_total_contributions_alltime(contributions)]_vars

C17_Witness ==
    /\ PayoutSucceeded
    /\ last.pot > 0
    /\ sum_total_contributions_alltime(contributions) >= last.pot
    /\ \E i \in 1..Len(contributions) :
          contributions[i].kind = "paid" /\ contributions[i].amount > 0


(***************************************************************************)
(* Concurrent payout runs.                                                 *)
(***************************************************************************)
Inserted(s) == runs[s].pc \in {"update", "advance", "done"} /\ runs[s].logged

CountedSum(s) ==
    SeqSum([i \in 1..Len(contributions) |->
              IF i \in runs[s].counted THEN contributions[i].amount ELSE 0])

\* C14: two payout runs that interleave so that both read the same
\* contribution rows as their pot before either clears it each log a payout
\* record of that pot: the same contributions are paid out twice
C14_SameReadPaysTwice ==
    \A s \in Runners, t \in Runners :
        ( /\ s # t
          /\ Inserted(s) /\ Inserted(t)
          /\ runs[s].counted # {}
          /\ runs[s].counted = runs[t].counted )
        => /\ runs[s].pot = CountedSum(s)
           /\ runs[t].pot = runs[s].pot
           /\ \E i \in 1..Len(payouts), j \in 1..Len(payouts) :
                 /\ i # j
                 /\ payouts[i].payout_amount = runs[s].pot
                 /\ payouts[j].payout_amount = runs[s].pot

\* both runs finished for the same member on the same rows, and more has
\* been paid out than was ever contributed
C14_Witness ==
    /\ runs[1].pc = "done" /\ runs[2].pc = "done"
    /\ runs[1].logged /\ runs[2].logged
    /\ runs[1].counted # {} /\ runs[1].counted = runs[2].counted
    /\ runs[1].idx = runs[2].idx
    /\ SeqSum([i \in 1..Len(payouts) |-> payouts[i].payout_amount])
         > sum_total_contributions_alltime(contributions)

\* C19: every contribution row a run's bulk update marks as paid was counted
\* in the pot that run paid out
C19_MarkedWereCounted ==
    \A s \in Runners :
        runs[s].pc \in {"advance", "done"}
        => runs[s].marked \subseteq runs[s].counted

(***************************************************************************)
(* The rotation state and the admin gate.                                  *)
(***************************************************************************)
\* C18: the rotation state is changed by the payout alone, and app_state
\* holds exactly one record
C18_RotationStateOnlyByPayoutAndSingle ==
    [][ /\ (app_state' # app_state => last'.op = "payout")
        /\ app_state_others' = <<>> ]_vars

\* the session's profile has role admin and is approved
SessionIsApprovedAdmin ==
    /\ session \in DOMAIN profiles
    /\ role_lower(profiles[session].role) = "admin"
    /\ profiles[session].approved = TRUE

\* C20: a store write, whether it succeeds or fails, happens only in a
\* session whose profile has role admin and approved = true
C20_WritesOnlyByApprovedAdmin ==
    [][ (tables' # tables \/ last' # last \/ clock' # clock)
        => SessionIsApprovedAdmin ]_vars

\* an approved admin has posted a fine and applied interest to a loan, and
\* a member is signed in afterwards
C20_Witness ==
    /\ session = "member"
    /\ last.op = "apply_interest" /\ last.ok
    /\ \E i \in 1..Len(loans) : loans[i].accrued_interest > 0

(***************************************************************************)
(* Loans and the borrow capacity.                                          *)
(***************************************************************************)
\* C21: issuing a loan leaves the borrow capacity of every member, the
\* borrower and the surety included, as it was: whenever the loans table
\* changes, member_available_to_borrow returns what it returned before
C21_LoansLeaveCapacity ==
    [][ loans' # loans
        => \A m \in member_labels :
              member_available_to_borrow(contributions, foundation, m)'
                = member_available_to_borrow(contributions, foundation, m)
      ]_vars

\* a second loan has just been issued to a borrower with capacity, with
\* another member as surety
C21_Witness ==
    /\ last.op = "issue_loan" /\ last.ok
    /\ Len(loans) >= 2
    /\ loans[1].borrower_member_id = NewestLoan.borrower_member_id
    /\ NewestLoan.surety_member_id # NewestLoan.borrower_member_id
    /\ member_available_to_borrow(contributions, foundation,
                                  NewestLoan.borrower_member_id).available > 0

====
